---- MODULE Spec2Model ----
(***************************************************************************)
(* Model of aws_gate/query.py: resolution of a user-supplied identifier    *)
(* into the instance id of a running EC2 instance.                         *)
(*                                                                         *)
(* A Python str is a sequence of one-character strings.  An Optional value *)
(* is None (the empty sequence) or Some(v) (the one-element sequence).     *)
(***************************************************************************)
EXTENDS Integers, Sequences, FiniteSets, TLC

None == <<>>
Some(v) == <<v>>

---------------------------------------------------------------------------
(* String literals of query.py *)

S_id == <<"i", "d", "-">>
S_i == <<"i", "-">>
S_compute_amazonaws_com ==
    <<"c", "o", "m", "p", "u", "t", "e", ".", "a", "m", "a", "z", "o", "n",
      "a", "w", "s", ".", "c", "o", "m">>
S_compute_internal ==
    <<"c", "o", "m", "p", "u", "t", "e", ".", "i", "n", "t", "e", "r", "n",
      "a", "l">>
S_instance_state_name ==
    <<"i", "n", "s", "t", "a", "n", "c", "e", "-", "s", "t", "a", "t", "e",
      "-", "n", "a", "m", "e">>
S_running == <<"r", "u", "n", "n", "i", "n", "g">>
S_private_dns_name ==
    <<"p", "r", "i", "v", "a", "t", "e", "-", "d", "n", "s", "-", "n", "a",
      "m", "e">>
S_dns_name == <<"d", "n", "s", "-", "n", "a", "m", "e">>
S_private_ip_address ==
    <<"p", "r", "i", "v", "a", "t", "e", "-", "i", "p", "-", "a", "d", "d",
      "r", "e", "s", "s">>
S_ip_address == <<"i", "p", "-", "a", "d", "d", "r", "e", "s", "s">>
S_tag_prefix == <<"t", "a", "g", ":">>
S_Name_prefix == <<"N", "a", "m", "e", ":">>

---------------------------------------------------------------------------
(* str methods used by query.py and by ipaddress *)

StartsWith(s, p) == Len(s) >= Len(p) /\ SubSeq(s, 1, Len(p)) = p

EndsWith(s, p) ==
    Len(s) >= Len(p) /\ SubSeq(s, Len(s) - Len(p) + 1, Len(s)) = p

Count(s, c) == Cardinality({i \in DOMAIN s : s[i] = c})

Contains(s, c) == \E i \in DOMAIN s : s[i] = c

\* Index of the first occurrence of c in s, 0 when there is none.
Find(s, c) ==
    IF Contains(s, c)
    THEN CHOOSE i \in DOMAIN s : s[i] = c /\ \A j \in 1..(i - 1) : s[j] # c
    ELSE 0

\* The k-th smallest element of a set of indices.
Kth(S, k) == CHOOSE i \in S : Cardinality({j \in S : j < i}) = k - 1

\* The pieces of s between the separators at the indices seps.
SplitWith(s, seps) ==
    [k \in 1..(Cardinality(seps) + 1) |->
        SubSeq(s,
               IF k = 1 THEN 1 ELSE Kth(seps, k - 1) + 1,
               IF k = Cardinality(seps) + 1 THEN Len(s)
               ELSE Kth(seps, k) - 1)]

\* s.split(c): the list of the maximal c-free pieces of s, in order.
Split(s, c) == SplitWith(s, {i \in DOMAIN s : s[i] = c})

---------------------------------------------------------------------------
(* ipaddress.ip_address and is_private, as far as query.py depends on them *)
(* (CPython 3.11: leading zeros in octets are rejected, scope ids are      *)
(* accepted, is_private of ::ffff:a.b.c.d is that of a.b.c.d)              *)

DecDigits == <<"0", "1", "2", "3", "4", "5", "6", "7", "8", "9">>

HexLower == <<"0", "1", "2", "3", "4", "5", "6", "7", "8", "9",
              "a", "b", "c", "d", "e", "f">>

HexUpper == <<"0", "1", "2", "3", "4", "5", "6", "7", "8", "9",
              "A", "B", "C", "D", "E", "F">>

IsDecDigit(ch) == \E i \in DOMAIN DecDigits : DecDigits[i] = ch

IsHexDigit(ch) ==
    \E i \in DOMAIN HexLower : HexLower[i] = ch \/ HexUpper[i] = ch

HexVal(ch) ==
    (CHOOSE i \in DOMAIN HexLower : HexLower[i] = ch \/ HexUpper[i] = ch) - 1

\* The value of the first k digits of s in the given base.
RECURSIVE IntOfPrefix(_, _, _)
IntOfPrefix(s, base, k) ==
    IF k = 0 THEN 0
    ELSE IntOfPrefix(s, base, k - 1) * base + HexVal(s[k])

\* int(s, base) for a non-empty string of digits of that base.
IntOf(s, base) == IntOfPrefix(s, base, Len(s))

\* '%x' % n for n >= 0.
RECURSIVE FormatHex(_)
FormatHex(n) ==
    IF n < 16 THEN <<HexLower[n + 1]>>
    ELSE FormatHex(n \div 16) \o <<HexLower[(n % 16) + 1]>>

\* _BaseV4._parse_octet: the octet's value, or -1 where it raises ValueError.
ParseOctet(o) ==
    IF Len(o) = 0 THEN -1
    ELSE IF ~ \A i \in DOMAIN o : IsDecDigit(o[i]) THEN -1
    ELSE IF Len(o) > 3 THEN -1
    ELSE IF o # <<"0">> /\ o[1] = "0" THEN -1
    ELSE IF IntOf(o, 10) > 255 THEN -1
    ELSE IntOf(o, 10)

\* Some(words) when every word was parsed, None when one of them raised.
Parsed(words) ==
    IF \E i \in DOMAIN words : words[i] = -1 THEN None ELSE Some(words)

\* _BaseV4._ip_int_from_string after the split into octets.
IPv4FromOctets(octets) ==
    IF Len(octets) # 4 THEN None
    ELSE Parsed([i \in 1..4 |-> ParseOctet(octets[i])])

\* IPv4Address(s): Some(the four octets), or None where it raises
\* AddressValueError.
IPv4FromString(s) ==
    IF Contains(s, "/") THEN None
    ELSE IF Len(s) = 0 THEN None
    ELSE IPv4FromOctets(Split(s, "."))

\* _BaseV6._parse_hextet: the hextet's value, or -1 where it raises.
ParseHextet(h) ==
    IF ~ \A i \in DOMAIN h : IsHexDigit(h[i]) THEN -1
    ELSE IF Len(h) > 4 THEN -1
    ELSE IF Len(h) = 0 THEN -1
    ELSE IntOf(h, 16)

\* _BaseV6._ip_int_from_string, the hextets of an address with "::":
\* parts_hi parts before it, parts_lo parts after it, zeroes between.
SkippedHextets(parts, parts_hi, parts_lo) ==
    IF 8 - (parts_hi + parts_lo) < 1 THEN None
    ELSE Parsed([i \in 1..8 |->
                    IF i <= parts_hi THEN ParseHextet(parts[i])
                    ELSE IF i <= 8 - parts_lo THEN 0
                    ELSE ParseHextet(parts[Len(parts) - 8 + i])])

\* _BaseV6._ip_int_from_string once "::" was found at skip_index (counted
\* from 0).
WithSkip(parts, skip_index) ==
    IF parts[1] = <<>> /\ skip_index - 1 # 0 THEN None
    ELSE IF parts[Len(parts)] = <<>> /\ Len(parts) - skip_index - 2 # 0
    THEN None
    ELSE SkippedHextets(
             parts,
             IF parts[1] = <<>> THEN skip_index - 1 ELSE skip_index,
             IF parts[Len(parts)] = <<>>
             THEN Len(parts) - skip_index - 2
             ELSE Len(parts) - skip_index - 1)

\* _BaseV6._ip_int_from_string after the split and the conversion of an
\* IPv4-style suffix; skips are the empty parts other than the endpoints.
IPv6FromParts(parts, skips) ==
    IF Len(parts) > 8 + 1 THEN None
    ELSE IF Cardinality(skips) > 1 THEN None
    ELSE IF skips # {} THEN WithSkip(parts, (CHOOSE i \in skips : TRUE) - 1)
    ELSE IF Len(parts) # 8 THEN None
    ELSE IF parts[1] = <<>> \/ parts[Len(parts)] = <<>> THEN None
    ELSE Parsed([i \in 1..8 |-> ParseHextet(parts[i])])

\* The parts with an IPv4-style last part v4 replaced by its two hextets.
WithIPv4Suffix(parts, v4) ==
    IF v4 = None THEN None
    ELSE Some(SubSeq(parts, 1, Len(parts) - 1)
              \o <<FormatHex(v4[1][1] * 256 + v4[1][2]),
                   FormatHex(v4[1][3] * 256 + v4[1][4])>>)

V6Parts(parts) ==
    IF Contains(parts[Len(parts)], ".")
    THEN WithIPv4Suffix(parts, IPv4FromString(parts[Len(parts)]))
    ELSE Some(parts)

EmptyInnerParts(parts) == {i \in 2..(Len(parts) - 1) : parts[i] = <<>>}

IPv6FromOptParts(optparts) ==
    IF optparts = None THEN None
    ELSE IPv6FromParts(optparts[1], EmptyInnerParts(optparts[1]))

IPv6FromSplit(parts) ==
    IF Len(parts) < 3 THEN None ELSE IPv6FromOptParts(V6Parts(parts))

\* _BaseV6._ip_int_from_string: Some(the eight hextets), or None where it
\* raises AddressValueError.
IPv6IntFromString(s) ==
    IF Len(s) = 0 THEN None ELSE IPv6FromSplit(Split(s, ":"))

\* IPv6Address._split_scope_id: Some(address part), or None where it raises;
\* p is the index of the first "%".
SplitScopeIdAt(s, p) ==
    IF p = 0 THEN Some(s)
    ELSE IF p = Len(s) \/ Contains(SubSeq(s, p + 1, Len(s)), "%") THEN None
    ELSE Some(SubSeq(s, 1, p - 1))

SplitScopeId(s) == SplitScopeIdAt(s, Find(s, "%"))

IPv6FromScoped(addr) ==
    IF addr = None THEN None ELSE IPv6IntFromString(addr[1])

IPv6FromString(s) ==
    IF Contains(s, "/") THEN None ELSE IPv6FromScoped(SplitScopeId(s))

\* ipaddress.ip_address(s): IPv4 is tried first, then IPv6.  The result is
\* [version, words] with the octets or the hextets, or None where
\* ip_address raises ValueError.
FirstAddress(v4, v6) ==
    IF v4 # None THEN Some([version |-> 4, words |-> v4[1]])
    ELSE IF v6 # None THEN Some([version |-> 6, words |-> v6[1]])
    ELSE None

ip_address(s) == FirstAddress(IPv4FromString(s), IPv6FromString(s))

RECURSIVE Pow2(_)
Pow2(n) == IF n = 0 THEN 1 ELSE 2 * Pow2(n - 1)

\* "address in network": the first prefixlen bits of the address, held as
\* words of width bits each, equal those of the network address.
InNetwork(words, width, net, prefixlen) ==
    \A i \in DOMAIN words :
        LET before == (i - 1) * width
            covered == IF prefixlen <= before THEN 0
                       ELSE IF prefixlen - before >= width THEN width
                       ELSE prefixlen - before
            shift == Pow2(width - covered)
        IN words[i] \div shift = net[i] \div shift

\* _IPv4Constants._private_networks
IPv4PrivateNetworks ==
    { <<(<<0, 0, 0, 0>>), 8>>,
      <<(<<10, 0, 0, 0>>), 8>>,
      <<(<<127, 0, 0, 0>>), 8>>,
      <<(<<169, 254, 0, 0>>), 16>>,
      <<(<<172, 16, 0, 0>>), 12>>,
      <<(<<192, 0, 0, 0>>), 29>>,
      <<(<<192, 0, 0, 170>>), 31>>,
      <<(<<192, 0, 2, 0>>), 24>>,
      <<(<<192, 168, 0, 0>>), 16>>,
      <<(<<198, 18, 0, 0>>), 15>>,
      <<(<<198, 51, 100, 0>>), 24>>,
      <<(<<203, 0, 113, 0>>), 24>>,
      <<(<<240, 0, 0, 0>>), 4>>,
      <<(<<255, 255, 255, 255>>), 32>> }

\* _IPv6Constants._private_networks (hextets in decimal)
IPv6PrivateNetworks ==
    { <<(<<0, 0, 0, 0, 0, 0, 0, 1>>), 128>>,
      <<(<<0, 0, 0, 0, 0, 0, 0, 0>>), 128>>,
      <<(<<0, 0, 0, 0, 0, 65535, 0, 0>>), 96>>,
      <<(<<256, 0, 0, 0, 0, 0, 0, 0>>), 64>>,
      <<(<<8193, 0, 0, 0, 0, 0, 0, 0>>), 23>>,
      <<(<<8193, 2, 0, 0, 0, 0, 0, 0>>), 48>>,
      <<(<<8193, 3512, 0, 0, 0, 0, 0, 0>>), 32>>,
      <<(<<8193, 16, 0, 0, 0, 0, 0, 0>>), 28>>,
      <<(<<64512, 0, 0, 0, 0, 0, 0, 0>>), 7>>,
      <<(<<65152, 0, 0, 0, 0, 0, 0, 0>>), 10>> }

IPv4IsPrivate(octets) ==
    \E net \in IPv4PrivateNetworks : InNetwork(octets, 8, net[1], net[2])

\* IPv6Address.ipv4_mapped: the octets of the embedded IPv4 address when
\* the address is ::ffff:a.b.c.d, else None.
Ipv4Mapped(hextets) ==
    IF (\A i \in 1..5 : hextets[i] = 0) /\ hextets[6] = 65535
    THEN Some(<<hextets[7] \div 256, hextets[7] % 256,
                hextets[8] \div 256, hextets[8] % 256>>)
    ELSE None

IPv6IsPrivate(hextets, ipv4_mapped) ==
    IF ipv4_mapped # None THEN IPv4IsPrivate(ipv4_mapped[1])
    ELSE \E net \in IPv6PrivateNetworks :
             InNetwork(hextets, 16, net[1], net[2])

\* The is_private property of the address object ip_address returned.
is_private(addr) ==
    IF addr.version = 4 THEN IPv4IsPrivate(addr.words)
    ELSE IPv6IsPrivate(addr.words, Ipv4Mapped(addr.words))

\* query.py _is_valid_ip
_is_valid_ip(ip) == ip_address(ip) # None
---------------------------------------------------------------------------
(* Bounds and the values the caller and the provider supply *)

MaxPieces == 3
MaxInstances == 2

\* Pieces of identifier strings; an identifier is 1..MaxPieces pieces joined
\* by ":".
Pieces ==
    { <<>>,
      <<"1">>,
      <<":", "f", "f", "f", "f">>,
      <<"w", "e", "b">>,
      <<"f", "e", "8", "0">>,
      <<"2", "5", "6", ".", "0", ".", "0", ".", "1">>,
      <<"1", "0", ".", "0", ".", "0", ".", "5">>,
      <<"8", ".", "8", ".", "8", ".", "8">>,
      <<"1", "%", "e">>,
      <<"i", "-", "0">>,
      <<"i", "d", "-", "1">>,
      <<"c", "o", "m", "p", "u", "t", "e", ".", "a", "m", "a", "z", "o", "n", "a", "w", "s", ".", "c", "o", "m">>,
      <<"c", "o", "m", "p", "u", "t", "e", ".", "i", "n", "t", "e", "r", "n", "a", "l">> }

RECURSIVE Join(_)
Join(ps) ==
    IF Len(ps) = 1 THEN ps[1]
    ELSE Join(SubSeq(ps, 1, Len(ps) - 1)) \o <<":">> \o ps[Len(ps)]

Names ==
    UNION { {Join(ps) : ps \in [1..n -> Pieces]} : n \in 1..MaxPieces }

\* The ec2 argument: None or a client handle.
Clients == {None, Some("client")}

\* instance_id attributes of the instances the provider enumerates; the
\* empty string is an instance without identifier.
InstanceIds == { <<>>, <<"i", "-", "a">>, <<"i", "-", "b">> }

\* What ec2.instances.filter does: it yields a list of instances, or raises
\* botocore's ClientError, or raises a botocore error that is not a
\* ClientError (EndpointConnectionError derives from BotoCoreError).
Outcomes ==
    { [kind |-> "ok", instances |-> is] :
          is \in UNION { [1..n -> InstanceIds] : n \in 0..MaxInstances } }
    \cup { [kind |-> "raise", error |-> e] :
              e \in {"ClientError", "EndpointConnectionError"} }

---------------------------------------------------------------------------
(* State *)

VARIABLES
    pc,               \* the function the interpreter is about to run
    name,             \* query_instance's name argument
    ec2,              \* query_instance's ec2 argument
    arg,              \* the name argument of the getinstanceidby* function
    identifier_type,  \* query_instance's local, "None" until classified
    filters,          \* the filters argument of _query_aws_api
    requests,         \* Filters of every ec2.instances.filter call made
    response,         \* what the last ec2.instances.filter call did
    ret,              \* the value query_instance returned
    exc               \* the exception query_instance raised

vars ==
    <<pc, name, ec2, arg, identifier_type, filters, requests, response, ret,
      exc>>

NoExc == [type |-> "none", msg |-> ""]

Init ==
    /\ pc = "idle"
    /\ name = <<>>
    /\ ec2 = None
    /\ arg = <<>>
    /\ identifier_type = "None"
    /\ filters = <<>>
    /\ requests = <<>>
    /\ response = None
    /\ ret = None
    /\ exc = NoExc

\* A caller invokes query_instance(name=n, ec2=e).
Call ==
    /\ pc = "idle"
    /\ pc' = "query_instance"
    /\ \E n \in Names, e \in Clients :
          /\ name' = n
          /\ ec2' = e
    /\ arg' = <<>>
    /\ identifier_type' = "None"
    /\ filters' = <<>>
    /\ requests' = <<>>
    /\ response' = None
    /\ ret' = None
    /\ exc' = NoExc

IsDirect_OnlyI(n) == StartsWith(n, S_i)

\* query_instance, line 93: the instance id is given directly.
IsDirect(n) == StartsWith(n, S_id) \/ StartsWith(n, S_i)

IdentifierType_PrivateSwapped(n) ==
    IF _is_valid_ip(n)
    THEN IF is_private(ip_address(n)[1])
         THEN "ip-address"
         ELSE "private-ip-address"
    ELSE IF EndsWith(n, S_compute_amazonaws_com) THEN "dns-name"
    ELSE IF EndsWith(n, S_compute_internal) THEN "private-dns-name"
    ELSE IF Count(n, ":") = 1 THEN "tag"
    ELSE "name"

IdentifierType_TagFirst(n) ==
    IF _is_valid_ip(n)
    THEN IF ~ is_private(ip_address(n)[1])
         THEN "ip-address"
         ELSE "private-ip-address"
    ELSE IF Count(n, ":") = 1 THEN "tag"
    ELSE IF EndsWith(n, S_compute_amazonaws_com) THEN "dns-name"
    ELSE IF EndsWith(n, S_compute_internal) THEN "private-dns-name"
    ELSE "name"

IdentifierType_AnyColon(n) ==
    IF _is_valid_ip(n)
    THEN IF ~ is_private(ip_address(n)[1])
         THEN "ip-address"
         ELSE "private-ip-address"
    ELSE IF EndsWith(n, S_compute_amazonaws_com) THEN "dns-name"
    ELSE IF EndsWith(n, S_compute_internal) THEN "private-dns-name"
    ELSE IF Count(n, ":") = 2 THEN "tag"
    ELSE "name"

\* query_instance, lines 96-109: the value assigned to identifier_type.
IdentifierType(n) ==
    IF _is_valid_ip(n)
    THEN IF ~ is_private(ip_address(n)[1])
         THEN "ip-address"
         ELSE "private-ip-address"
    ELSE IF EndsWith(n, S_compute_amazonaws_com) THEN "dns-name"
    ELSE IF EndsWith(n, S_compute_internal) THEN "private-dns-name"
    ELSE IF Count(n, ":") = 1 THEN "tag"
    ELSE "name"

\* query_instance, lines 82-89: identifier type -> function.
func_dispatcher ==
    [t \in {"dns-name", "private-dns-name", "ip-address",
            "private-ip-address", "tag", "name"} |->
        CASE t = "dns-name" -> "getinstanceidbydnsname"
          [] t = "private-dns-name" -> "getinstanceidbyprivatednsname"
          [] t = "ip-address" -> "getinstanceidbyipaddress"
          [] t = "private-ip-address" -> "getinstanceidbyprivateipaddress"
          [] t = "tag" -> "getinstanceidbytag"
          [] t = "name" -> "getinstanceidbyinstancename"]

ClientMissing_Never(e) == FALSE

\* query_instance, line 76: "ec2 is None".
ClientMissing(e) == e = None

query_instance ==
    /\ pc = "query_instance"
    /\ IF ClientMissing(ec2)
       THEN /\ exc' = [type |-> "ValueError",
                       msg |-> "EC2 client is not initialized"]
            /\ pc' = "done"
            /\ UNCHANGED <<identifier_type, arg, ret>>
       ELSE IF IsDirect(name)
       THEN /\ ret' = Some(name)
            /\ pc' = "done"
            /\ UNCHANGED <<identifier_type, arg, exc>>
       ELSE /\ identifier_type' = IdentifierType(name)
            /\ pc' = func_dispatcher[identifier_type']
            /\ arg' = name
            /\ UNCHANGED <<ret, exc>>
    /\ UNCHANGED <<name, ec2, filters, requests, response>>

\* The body shared by the four functions that query one attribute by the
\* whole string.
ByAttribute(fn, attribute) ==
    /\ pc = fn
    /\ filters' = <<[Name |-> attribute, Values |-> <<arg>>]>>
    /\ pc' = "_query_aws_api"
    /\ UNCHANGED <<name, ec2, arg, identifier_type, requests, response, ret,
                   exc>>

getinstanceidbyprivatednsname ==
    ByAttribute("getinstanceidbyprivatednsname", S_private_dns_name)

getinstanceidbydnsname ==
    ByAttribute("getinstanceidbydnsname", S_dns_name)

getinstanceidbyprivateipaddress ==
    ByAttribute("getinstanceidbyprivateipaddress", S_private_ip_address)

getinstanceidbyipaddress ==
    ByAttribute("getinstanceidbyipaddress", S_ip_address)

\* key, value = name.split(":") raises ValueError unless the split yields
\* exactly two pieces.
getinstanceidbytag ==
    /\ pc = "getinstanceidbytag"
    /\ LET parts == Split(arg, ":")
       IN IF Len(parts) = 2
          THEN /\ filters' = <<[Name |-> S_tag_prefix \o parts[1],
                                Values |-> <<parts[2]>>]>>
               /\ pc' = "_query_aws_api"
               /\ exc' = exc
          ELSE /\ exc' = [type |-> "ValueError",
                          msg |-> IF Len(parts) > 2
                                  THEN "too many values to unpack"
                                  ELSE "not enough values to unpack"]
               /\ pc' = "done"
               /\ filters' = filters
    /\ UNCHANGED <<name, ec2, arg, identifier_type, requests, response, ret>>

getinstanceidbyinstancename ==
    /\ pc = "getinstanceidbyinstancename"
    /\ arg' = S_Name_prefix \o arg
    /\ pc' = "getinstanceidbytag"
    /\ UNCHANGED <<name, ec2, identifier_type, filters, requests, response,
                   ret, exc>>

RunningFilter_Any == [Name |-> S_instance_state_name, Values |-> <<>>]

\* _query_aws_api, line 28: the filter added to every query.
RunningFilter == [Name |-> S_instance_state_name, Values |-> <<S_running>>]

\* The first instance with an identifier wins.
LastInstanceId_First(instances, r) ==
    IF \A i \in DOMAIN instances : Len(instances[i]) = 0 THEN r
    ELSE Some(instances[CHOOSE i \in DOMAIN instances :
                           /\ Len(instances[i]) > 0
                           /\ \A j \in 1..(i - 1) : Len(instances[j]) = 0])

\* _query_aws_api, lines 33-36: the loop over the instances found.
RECURSIVE LastInstanceId(_, _)
LastInstanceId(instances, r) ==
    IF Len(instances) = 0 THEN r
    ELSE LastInstanceId(Tail(instances),
                        IF Len(Head(instances)) > 0
                        THEN Some(Head(instances))
                        ELSE r)

\* _query_aws_api, line 37: the exceptions the except clause catches.
IsClientError(e) == e = "ClientError"

_query_aws_api ==
    /\ pc = "_query_aws_api"
    /\ filters' = filters \o <<RunningFilter>>
    /\ requests' = Append(requests, filters')
    /\ \E outcome \in Outcomes :
          /\ response' = Some(outcome)
          /\ IF outcome.kind = "ok"
             THEN /\ ret' = LastInstanceId(outcome.instances, None)
                  /\ exc' = exc
             ELSE /\ exc' = IF IsClientError(outcome.error)
                            THEN [type |-> "AWSConnectionError", msg |-> ""]
                            ELSE [type |-> outcome.error, msg |-> ""]
                  /\ ret' = ret
    /\ pc' = "done"
    /\ UNCHANGED <<name, ec2, arg, identifier_type>>

\* The caller has the result or the exception; nothing of the invocation
\* is kept (the module has no state of its own).
Finish ==
    /\ pc = "done"
    /\ pc' = "idle"
    /\ name' = <<>>
    /\ ec2' = None
    /\ arg' = <<>>
    /\ identifier_type' = "None"
    /\ filters' = <<>>
    /\ requests' = <<>>
    /\ response' = None
    /\ ret' = None
    /\ exc' = NoExc

Next ==
    \/ Call
    \/ query_instance
    \/ getinstanceidbyprivatednsname
    \/ getinstanceidbydnsname
    \/ getinstanceidbyprivateipaddress
    \/ getinstanceidbyipaddress
    \/ getinstanceidbytag
    \/ getinstanceidbyinstancename
    \/ _query_aws_api
    \/ Finish

Spec == Init /\ [][Next]_vars

---------------------------------------------------------------------------
(* Properties *)

Present == ec2 # None

HasDirectPrefix(n) ==
    StartsWith(n, <<"i", "-">>) \/ StartsWith(n, <<"i", "d", "-">>)

HasDnsSuffix(n) ==
    EndsWith(n, S_compute_amazonaws_com) \/ EndsWith(n, S_compute_internal)

Returned == pc = "done" /\ exc = NoExc

\* C1: an identifier starting with "i-" or "id-", given with a client, is
\* returned unchanged and no query is ever sent to the provider for it.
C1_DirectPassthrough ==
    (pc # "idle" /\ Present /\ HasDirectPrefix(name)) =>
        /\ requests = <<>>
        /\ response = None
        /\ pc \in {"query_instance", "done"}
        /\ pc = "done" => (exc = NoExc /\ ret = Some(name))

C1_Witness ==
    /\ Returned /\ Present
    /\ StartsWith(name, <<"i", "d", "-">>)
    /\ Contains(name, ":")
    /\ EndsWith(name, S_compute_amazonaws_com)
    /\ ret = Some(name)

\* C2: without a client query_instance raises the "not initialized"
\* ValueError for every identifier, before anything is classified and
\* without a query or a returned value.
C2_ClientAbsent ==
    (pc # "idle" /\ ~ Present) =>
        /\ requests = <<>>
        /\ response = None
        /\ identifier_type = "None"
        /\ filters = <<>>
        /\ ret = None
        /\ pc \in {"query_instance", "done"}
        /\ pc = "done" =>
               exc = [type |-> "ValueError",
                      msg |-> "EC2 client is not initialized"]

C2_Witness ==
    /\ pc = "done" /\ ~ Present
    /\ HasDirectPrefix(name)
    /\ exc.type = "ValueError"

\* C3: every query sent to the provider consists of exactly one
\* kind-specific filter followed by instance-state-name = ["running"].
C3_RunningFilterAlways ==
    \A i \in DOMAIN requests :
        /\ Len(requests[i]) = 2
        /\ requests[i][2] =
               [Name |-> S_instance_state_name, Values |-> <<S_running>>]
        /\ Len(requests[i][1].Values) = 1
        /\ \/ requests[i][1].Name \in
                  {S_ip_address, S_private_ip_address, S_dns_name,
                   S_private_dns_name}
           \/ StartsWith(requests[i][1].Name, S_tag_prefix)

C3_Witness ==
    /\ pc = "done"
    /\ identifier_type = "name"
    /\ Len(requests) = 1
    /\ requests[1][2].Values = <<S_running>>

\* C4: whenever the provider query fails, query_instance raises
\* AWSConnectionError, whatever the class of the provider's error.
C4_UniformConnectionError ==
    (pc = "done" /\ response # None /\ response[1].kind = "raise") =>
        exc.type = "AWSConnectionError"

\* The rules above "name" in the classification do not apply to n.
NoHigherRule(n) ==
    /\ ~ HasDirectPrefix(n)
    /\ ~ _is_valid_ip(n)
    /\ ~ HasDnsSuffix(n)

\* C5: an identifier that matches no higher rule and does not have exactly
\* one ":" is queried by tag:Name with the whole string as the value.
C5_NameQuery ==
    (pc = "done" /\ Present /\ NoHigherRule(name) /\ Count(name, ":") # 1) =>
        /\ identifier_type = "name"
        /\ Len(requests) = 1
        /\ requests[1][1] =
               [Name |-> <<"t", "a", "g", ":", "N", "a", "m", "e">>,
                Values |-> <<name>>]

\* C6: an identifier with exactly one ":" that matches no higher rule is
\* queried as a tag: attribute "tag:<key>", value "<value>", split at the
\* colon.
C6_TagQuery ==
    (pc = "done" /\ Present /\ NoHigherRule(name) /\ Count(name, ":") = 1) =>
        /\ identifier_type = "tag"
        /\ Len(requests) = 1
        /\ \E k \in DOMAIN name :
              /\ name[k] = ":"
              /\ requests[1][1] =
                     [Name |-> <<"t", "a", "g", ":">> \o SubSeq(name, 1, k - 1),
                      Values |-> <<SubSeq(name, k + 1, Len(name))>>]

C6_Witness ==
    /\ pc = "done" /\ Present
    /\ NoHigherRule(name) /\ Count(name, ":") = 1
    /\ name[Len(name)] = ":"
    /\ Len(name) > 1
    /\ Len(requests) = 1
    /\ requests[1][1].Values = << <<>> >>

C8_PriorityOrder ==
    (pc \notin {"idle", "query_instance"} /\ Present) =>
        IF HasDirectPrefix(name)
        THEN identifier_type = "None" /\ requests = <<>>
        ELSE IF _is_valid_ip(name)
        THEN identifier_type \in {"ip-address", "private-ip-address"}
        ELSE IF EndsWith(name, S_compute_amazonaws_com)
        THEN /\ identifier_type = "dns-name"
             /\ pc = "done" =>
                    /\ Len(requests) = 1
                    /\ requests[1][1] =
                           [Name |-> S_dns_name, Values |-> <<name>>]
        ELSE IF EndsWith(name, S_compute_internal)
        THEN /\ identifier_type = "private-dns-name"
             /\ pc = "done" =>
                    /\ Len(requests) = 1
                    /\ requests[1][1] =
                           [Name |-> S_private_dns_name, Values |-> <<name>>]
        ELSE IF Count(name, ":") = 1
        THEN identifier_type = "tag"
        ELSE identifier_type = "name"

C8_Witness ==
    /\ pc = "done" /\ Present
    /\ EndsWith(name, S_compute_amazonaws_com)
    /\ Count(name, ":") = 1
    /\ identifier_type = "dns-name"
    /\ Len(requests) = 1

\* C9: after a successful query the result is the identifier of the last
\* enumerated instance that has a non-empty identifier, and None exactly
\* when no enumerated instance has one.
C9_LastInstanceWins ==
    (pc = "done" /\ response # None /\ response[1].kind = "ok") =>
        LET instances == response[1].instances
            withId == {i \in DOMAIN instances : instances[i] # <<>>}
        IN /\ exc = NoExc
           /\ (ret = None) <=> (withId = {})
           /\ withId # {} =>
                  \E i \in withId :
                      /\ ret = Some(instances[i])
                      /\ \A j \in withId : j <= i

C9_Witness ==
    /\ Returned
    /\ response # None /\ response[1].kind = "ok"
    /\ Len(response[1].instances) = 2
    /\ response[1].instances[1] # <<>>
    /\ response[1].instances[2] # <<>>
    /\ response[1].instances[1] # response[1].instances[2]
    /\ ret = Some(response[1].instances[2])

\* C10: an invocation with a client and an identifier without direct
\* prefix has sent exactly one query when it returns or raises.
C10_ExactlyOneQuery ==
    (pc = "done" /\ Present /\ ~ HasDirectPrefix(name)) =>
        Len(requests) = 1

====
